---------------------------- MODULE Spec2Model ----------------------------
(***************************************************************************)
(* A model of awkward.table.Table: a named, ordered collection of column   *)
(* buffers seen through a strided window (start, step, length).            *)
(*                                                                         *)
(* Column buffers live in a heap (a sequence of integer sequences); a      *)
(* table's content maps column names, in insertion order, to heap          *)
(* references, so that tables built from the same buffers alias them.      *)
(* All indices are Python's 0-based indices; element i of a buffer x is    *)
(* x[i + 1] in the TLA+ sequence.                                          *)
(***************************************************************************)
EXTENDS Integers, Sequences, FiniteSets, TLC

VARIABLES heap, tabs, res, writes

vars == <<heap, tabs, res, writes>>

-----------------------------------------------------------------------------
(* Bounds of the model. *)

\* longest column buffer, and largest table length given to the constructor
MaxLen == 3
\* number of write operations
MaxWrites == 1
\* number of slices taken in a row, each of the result of the one before
MaxSlices == 3

-----------------------------------------------------------------------------
(* Python values. *)

\* an optional integer: Python's None or an int
None == [some |-> FALSE, v |-> 0]
Some(n) == [some |-> TRUE, v |-> n]

Abs(n) == IF n < 0 THEN -n ELSE n
Min(a, b) == IF a < b THEN a ELSE b
Max(a, b) == IF a < b THEN b ELSE a

\* Python's divmod(a, b) for a >= 0, b > 0, as <<d, m>>
DivMod(a, b) == <<a \div b, a % b>>

\* the sequence 0-based positions lo, lo+st, ... of given count
Stride(lo, st, count) == [k \in 1..count |-> lo + st * (k - 1)]

\* slice.indices(length) bound for one of start/stop: None takes the default,
\* a negative value is counted from the end, everything is clamped
ClampIndex(o, length, lower, upper, dflt) ==
    IF ~o.some THEN dflt
    ELSE IF o.v < 0 THEN Max(o.v + length, lower)
    ELSE Min(o.v, upper)

\* slice(start, stop, step).indices(length): <<start, stop, step>>, step # 0
SliceIndices(sl, length) ==
    LET step  == IF sl[3].some THEN sl[3].v ELSE 1
        lower == IF step < 0 THEN -1 ELSE 0
        upper == IF step < 0 THEN length - 1 ELSE length
    IN  << ClampIndex(sl[1], length, lower, upper, IF step < 0 THEN upper ELSE lower),
           ClampIndex(sl[2], length, lower, upper, IF step < 0 THEN lower ELSE upper),
           step >>

\* len(range(start, stop, step))
RangeLen(start, stop, step) ==
    IF step > 0
    THEN (IF stop > start THEN (stop - start + step - 1) \div step ELSE 0)
    ELSE (IF stop < start THEN (start - stop - step - 1) \div (-step) ELSE 0)

\* the 0-based positions that x[start:stop:step] addresses in a buffer of n
\* elements (a basic slice: a view of the buffer)
SlicePositions(n, sl) ==
    LET i == SliceIndices(sl, n)
    IN  Stride(i[1], i[3], RangeLen(i[1], i[2], i[3]))


-----------------------------------------------------------------------------
(* Values handed to the table: column sources and right-hand sides. *)

\* a right-hand value: a scalar, a raw sequence, or an existing column buffer
Scalar(n) == [kind |-> "scalar", v |-> n, data |-> <<>>, ref |-> 0]
Raw(d)    == [kind |-> "seq", v |-> 0, data |-> d, ref |-> 0]
Ref(b)    == [kind |-> "ref", v |-> 0, data |-> <<>>, ref |-> b]

\* the elements a value supplies (a buffer supplies its current elements)
Elems(h, what) == IF what.kind = "ref" THEN h[what.ref] ELSE what.data

\* the outcome of an operation on a table: error name ("" when none), the
\* table and the heap afterwards
Outcome(e, t, h) == [err |-> e, tab |-> t, heap |-> h]

\* awkward.base.AwkwardArray._toarray: an array passes through unchanged (the
\* same buffer), anything else is converted into a new buffer
ToArray(h, what) ==
    IF what.kind = "ref" THEN [heap |-> h, ref |-> what.ref]
    ELSE [heap |-> Append(h, what.data), ref |-> Len(h) + 1]

\* numpy: x[positions] = what through a basic-slice view of buffer x; a scalar
\* or a one-element sequence is broadcast, any other sequence must match
CanAssign(h, pos, what) ==
    \/ what.kind = "scalar"
    \/ Len(Elems(h, what)) = Len(pos)
    \/ Len(Elems(h, what)) = 1

Assign(h, x, pos, what) ==
    LET d == Elems(h, what)
        new(k) == IF what.kind = "scalar" THEN what.v
                  ELSE IF Len(d) = 1 THEN d[1] ELSE d[k]
        at(i) == CHOOSE k \in 1..Len(pos) :
                    /\ pos[k] = i
                    /\ \A j \in (k + 1)..Len(pos) : pos[j] # i
    IN  [i \in 1..Len(x) |->
            IF \E k \in 1..Len(pos) : pos[k] = i - 1 THEN new(at(i - 1)) ELSE x[i]]

-----------------------------------------------------------------------------
(* class Table *)

\* the step, start and length setters: the value must be acceptable
StepOk(value) == value # 0
StartOk(value) == value >= 0
LengthOk(value) == value >= 0

\* the names of a table's columns, in insertion order
Names(tab) == [k \in 1..Len(tab.content) |-> tab.content[k].name]
HasName(tab, n) == \E k \in 1..Len(tab.content) : tab.content[k].name = n
\* self._content[n], for a name the table has
Column(tab, n) ==
    tab.content[CHOOSE k \in 1..Len(tab.content) : tab.content[k].name = n].buf

\* Table.stop: derived from the basis; None when it comes out negative
Stop(tab) ==
    LET out == tab.start + tab.step * tab.length
    IN  IF out < 0 THEN None ELSE Some(out)

\* Table._check_length: the last row the window addresses must exist in x
LastRow(tab) ==
    IF tab.step > 0 THEN tab.start + tab.step * (tab.length - 1) ELSE tab.start

CheckLength(tab, x) == LastRow(tab) < Len(x)

\* the positions of buffer x that x[self.start:self.stop:self.step] addresses
WindowPositions(tab, x) ==
    SlicePositions(Len(x), <<Some(tab.start), Stop(tab), Some(tab.step)>>)

\* SetColumn with the view test looking at the start alone
SetColumnStartOnly(h, tab, n, what) ==
    IF ~HasName(tab, n)
    THEN IF tab.start # 0
         THEN Outcome("ViewMutationError", tab, h)
         ELSE LET a == ToArray(h, what)
              IN  Outcome("", [tab EXCEPT !.content =
                                  Append(@, [name |-> n, buf |-> a.ref])], a.heap)
    ELSE LET b == Column(tab, n)
             pos == WindowPositions(tab, h[b])
         IN  IF ~CheckLength(tab, h[b]) THEN Outcome("LengthViolation", tab, h)
             ELSE IF ~CanAssign(h, pos, what) THEN Outcome("BroadcastError", tab, h)
             ELSE Outcome("", tab, [h EXCEPT ![b] = Assign(h, h[b], pos, what)])

\* Table.__setitem__ with a column name
SetColumn(h, tab, n, what) ==
    IF ~HasName(tab, n)
    THEN IF tab.start # 0 \/ tab.step # 1
         THEN Outcome("ViewMutationError", tab, h)
         ELSE LET a == ToArray(h, what)
              IN  Outcome("", [tab EXCEPT !.content =
                                  Append(@, [name |-> n, buf |-> a.ref])], a.heap)
    ELSE LET b == Column(tab, n)
             pos == WindowPositions(tab, h[b])
         IN  IF ~CheckLength(tab, h[b]) THEN Outcome("LengthViolation", tab, h)
             ELSE IF ~CanAssign(h, pos, what) THEN Outcome("BroadcastError", tab, h)
             ELSE Outcome("", tab, [h EXCEPT ![b] = Assign(h, h[b], pos, what)])

\* "f" + str(i), the name of the i-th unnamed column
FieldName(i) == <<"f0", "f1", "f2", "f3">>[i + 1]

\* Table.__init__, the loops over named columns (a dict's items, then the
\* keyword columns): a name already seen is refused, the column is set, and a
\* dict given together with more positional arguments is refused
RECURSIVE NamedColumns(_, _, _, _)
NamedColumns(o, items, seen, extra) ==
    IF o.err # "" \/ items = <<>> THEN [out |-> o, seen |-> seen]
    ELSE LET it == Head(items)
             o2 == SetColumn(o.heap, o.tab, it.name, it.what)
         IN  IF it.name \in seen
             THEN [out |-> Outcome("DuplicateField", o.tab, o.heap), seen |-> seen]
             ELSE IF o2.err # "" THEN [out |-> o2, seen |-> seen]
             ELSE IF extra
             THEN [out |-> Outcome("InvalidArguments", o2.tab, o2.heap), seen |-> seen]
             ELSE NamedColumns(o2, Tail(items), seen \cup {it.name}, extra)

\* Table.__init__, the unnamed columns: self["f" + str(i)] = x, from index i
RECURSIVE UnnamedColumns(_, _, _)
UnnamedColumns(o, whats, i) ==
    IF o.err # "" \/ whats = <<>> THEN o
    ELSE UnnamedColumns(SetColumn(o.heap, o.tab, FieldName(i), Head(whats)),
                        Tail(whats), i + 1)

\* the first positional argument: a dict of named columns, one unnamed
\* column, or something that is neither
Dict(items) == [kind |-> "dict", items |-> items, what |-> Scalar(0)]
Unnamed(what) == [kind |-> "seq", items |-> <<>>, what |-> what]
Neither == [kind |-> "other", items |-> <<>>, what |-> Scalar(0)]

\* Table.__init__(length, columns1, *columns2, **columns3)
TableInit(h, length, columns1, columns2, columns3) ==
    LET empty == [start |-> 0, step |-> 1, length |-> length, content |-> <<>>]
        first ==
            IF ~(StepOk(1) /\ StartOk(0) /\ LengthOk(length))
            THEN [out |-> Outcome("InvalidWindow", empty, h), seen |-> {}]
            ELSE IF columns1.kind = "dict"
            THEN NamedColumns(Outcome("", empty, h), columns1.items, {},
                              columns2 # <<>>)
            ELSE IF columns1.kind = "seq"
            THEN [out |-> UnnamedColumns(Outcome("", empty, h),
                                         <<columns1.what>> \o columns2, 0),
                  seen |-> {}]
            ELSE [out |-> Outcome("InvalidArguments", empty, h), seen |-> {}]
    IN  NamedColumns(first.out, columns3, first.seen, FALSE).out

\* the result of a read that returns data: error name and the elements
Read(e, d) == [err |-> e, out |-> d]

\* Table.__getitem__ with a column name: the column restricted to the window
GetColumn(h, tab, n) ==
    IF ~HasName(tab, n) THEN Read("UnknownField", <<>>)
    ELSE LET x == h[Column(tab, n)]
             pos == WindowPositions(tab, x)
         IN  IF ~CheckLength(tab, x) THEN Read("LengthViolation", <<>>)
             ELSE Read("", [k \in 1..Len(pos) |-> x[pos[k] + 1]])

\* numpy: x[i] for an integer i; a negative i counts from the end
ItemOk(x, i) == -Len(x) <= i /\ i < Len(x)
Item(x, i) == IF i < 0 THEN x[i + Len(x) + 1] ELSE x[i + 1]

\* Table.__getitem__ with an integer: one element of every column, in the
\* order of the columns; the first column that fails decides the error
GetRow(h, tab, where) ==
    LET n == Len(tab.content)
        x(k) == h[tab.content[k].buf]
        bad(k) == ~CheckLength(tab, x(k)) \/ ~ItemOk(x(k), where)
    IN  IF \E k \in 1..n : bad(k)
        THEN LET k == CHOOSE k \in 1..n : bad(k) /\ \A j \in 1..(k - 1) : ~bad(j)
             IN  Read(IF ~CheckLength(tab, x(k)) THEN "LengthViolation"
                      ELSE "IndexError", <<>>)
        ELSE Read("", [k \in 1..n |-> Item(x(k), where)])

\* the table's own columns as constructor arguments (the same buffers)
SameColumns(tab) ==
    [k \in 1..Len(tab.content) |->
        [name |-> tab.content[k].name, what |-> Ref(tab.content[k].buf)]]

\* GetSlice with the new start not scaled by this table's step
GetSliceUnscaled(h, tab, where) ==
    LET out == TableInit(h, tab.length, Dict(SameColumns(tab)), <<>>, <<>>)
        ind == SliceIndices(where, tab.length)
        dm  == DivMod(Abs(ind[1] - ind[2]), Abs(ind[3]))
    IN  IF out.err # "" THEN out
        ELSE Outcome("", [out.tab EXCEPT
                            !.start = tab.start + ind[1],
                            !.step = tab.step * ind[3],
                            !.length = dm[1] + (IF dm[2] # 0 THEN 1 ELSE 0)],
                     out.heap)

\* Table.__getitem__ with a slice: a table over the same buffers whose
\* window is composed from this table's window and the slice
GetSlice(h, tab, where) ==
    LET out == TableInit(h, tab.length, Dict(SameColumns(tab)), <<>>, <<>>)
        ind == SliceIndices(where, tab.length)
        dm  == DivMod(Abs(ind[1] - ind[2]), Abs(ind[3]))
    IN  IF out.err # "" THEN out
        ELSE Outcome("", [out.tab EXCEPT
                            !.start = tab.start + tab.step * ind[1],
                            !.step = tab.step * ind[3],
                            !.length = dm[1] + (IF dm[2] # 0 THEN 1 ELSE 0)],
                     out.heap)

\* a list of booleans (a mask) or of integers (a fancy index)
Mask(bits) == [kind |-> "mask", bits |-> bits, sel |-> <<>>, i |-> 0]
Fancy(sel) == [kind |-> "fancy", bits |-> <<>>, sel |-> sel, i |-> 0]
Row(i)     == [kind |-> "row", bits |-> <<>>, sel |-> <<>>, i |-> i]

\* the 1-based positions of the TRUE entries of a mask, in order
RECURSIVE TrueAt(_, _)
TrueAt(bits, k) ==
    IF k > Len(bits) THEN <<>>
    ELSE (IF bits[k] THEN <<k>> ELSE <<>>) \o TrueAt(bits, k + 1)

\* numpy: x[where] for a sequence of m elements; the 1-based positions it
\* addresses (a mask must have one entry per element)
PickOk(m, where) ==
    IF where.kind = "mask" THEN Len(where.bits) = m
    ELSE IF where.kind = "fancy"
    THEN \A k \in 1..Len(where.sel) : -m <= where.sel[k] /\ where.sel[k] < m
    ELSE -m <= where.i /\ where.i < m

Pick(m, where) ==
    LET norm(i) == IF i < 0 THEN i + m + 1 ELSE i + 1
    IN  IF where.kind = "mask" THEN TrueAt(where.bits, 1)
        ELSE IF where.kind = "fancy"
        THEN [k \in 1..Len(where.sel) |-> norm(where.sel[k])]
        ELSE <<norm(where.i)>>

\* the keys of dict((n, ...) for n in names): a repeated name keeps its first
\* place
RECURSIVE Keys(_, _)
Keys(names, seen) ==
    IF names = <<>> THEN <<>>
    ELSE IF Head(names) \in seen THEN Keys(Tail(names), seen)
    ELSE <<Head(names)>> \o Keys(Tail(names), seen \cup {Head(names)})

\* Table.__getitem__ with a mask or a fancy index: a table of new buffers,
\* each holding x[where] of a column x, with this table's window
GetIndex(h, tab, where) ==
    LET names == Names(tab)
        x(n) == h[Column(tab, n)]
        bad(k) == ~CheckLength(tab, x(names[k])) \/ ~PickOk(Len(x(names[k])), where)
        taken(n) == LET p == Pick(Len(x(n)), where)
                    IN  Raw([k \in 1..Len(p) |-> x(n)[p[k]]])
        keys == Keys(names, {})
        items == [k \in 1..Len(keys) |-> [name |-> keys[k], what |-> taken(keys[k])]]
        out == TableInit(h, tab.length, Dict(items), <<>>, <<>>)
    IN  IF \E k \in 1..Len(names) : bad(k)
        THEN LET k == CHOOSE k \in 1..Len(names) :
                        bad(k) /\ \A j \in 1..(k - 1) : ~bad(j)
             IN  Outcome(IF ~CheckLength(tab, x(names[k])) THEN "LengthViolation"
                         ELSE "IndexError", tab, h)
        ELSE IF out.err # "" THEN out
        ELSE Outcome("", [out.tab EXCEPT !.start = tab.start, !.step = tab.step],
                     out.heap)

\* Table.__getitem__ with a sequence of column names: a table of the named
\* columns (the same buffers), with this table's window
GetColumns(h, tab, where) ==
    LET bad(k) == ~HasName(tab, where[k])
                    \/ ~CheckLength(tab, h[Column(tab, where[k])])
        same(n) == Ref(Column(tab, n))
        keys == Keys(where, {})
        items == [k \in 1..Len(keys) |-> [name |-> keys[k], what |-> same(keys[k])]]
        out == TableInit(h, tab.length, Dict(items), <<>>, <<>>)
    IN  IF \E k \in 1..Len(where) : bad(k)
        THEN LET k == CHOOSE k \in 1..Len(where) :
                        bad(k) /\ \A j \in 1..(k - 1) : ~bad(j)
             IN  Outcome(IF ~HasName(tab, where[k]) THEN "UnknownField"
                         ELSE "LengthViolation", tab, h)
        ELSE IF out.err # "" THEN out
        ELSE Outcome("", [out.tab EXCEPT !.start = tab.start, !.step = tab.step],
                     out.heap)

\* Table.__setitem__, one column after the other: the column named names[1]
\* gets whats[1] in its window, and so on; the first failure stops the loop
\* with the earlier columns written
RECURSIVE SetWindows(_, _, _, _)
SetWindows(o, tab, names, whats) ==
    IF o.err # "" \/ names = <<>> THEN o
    ELSE IF ~HasName(tab, Head(names)) THEN Outcome("UnknownField", tab, o.heap)
    ELSE LET b == Column(tab, Head(names))
             x == o.heap[b]
             pos == WindowPositions(tab, x)
         IN  IF ~CheckLength(tab, x) THEN Outcome("LengthViolation", tab, o.heap)
             ELSE IF ~CanAssign(o.heap, pos, Head(whats))
             THEN Outcome("BroadcastError", tab, o.heap)
             ELSE SetWindows(
                    Outcome("", tab,
                            [o.heap EXCEPT ![b] = Assign(o.heap, x, pos, Head(whats))]),
                    tab, Tail(names), Tail(whats))

\* Table.__setitem__ with a row index, a mask or a fancy index: in every
\* column, x[window][where] = what
RECURSIVE SetIndexed(_, _, _, _, _)
SetIndexed(o, tab, names, where, what) ==
    IF o.err # "" \/ names = <<>> THEN o
    ELSE LET b == Column(tab, Head(names))
             x == o.heap[b]
             pos == WindowPositions(tab, x)
             p == Pick(Len(pos), where)
             target == [k \in 1..Len(p) |-> pos[p[k]]]
         IN  IF ~CheckLength(tab, x) THEN Outcome("LengthViolation", tab, o.heap)
             ELSE IF ~PickOk(Len(pos), where) THEN Outcome("IndexError", tab, o.heap)
             ELSE IF ~CanAssign(o.heap, target, what)
             THEN Outcome("BroadcastError", tab, o.heap)
             ELSE SetIndexed(
                    Outcome("", tab,
                            [o.heap EXCEPT ![b] = Assign(o.heap, x, target, what)]),
                    tab, Tail(names), where, what)

\* the right-hand side of a write to several columns: a scalar, or a
\* sequence with one value per column
One(n) == [kind |-> "scalar", v |-> n, elems |-> <<>>]
Each(elems) == [kind |-> "seq", v |-> 0, elems |-> elems]

\* Table.__setitem__ with a sequence of column names
SetColumns(h, tab, where, what) ==
    LET all == Names(tab)
    IN  IF what.kind = "seq" /\ Len(what.elems) = 1
        THEN \* the loop's first step fails: n is not defined
             IF all = <<>> THEN Outcome("", tab, h)
             ELSE IF ~CheckLength(tab, h[Column(tab, all[1])])
             THEN Outcome("LengthViolation", tab, h)
             ELSE Outcome("NameError", tab, h)
        ELSE IF what.kind = "seq"
        THEN IF Len(what.elems) # Len(where) THEN Outcome("ShapeError", tab, h)
             ELSE SetWindows(Outcome("", tab, h), tab, where, what.elems)
        ELSE SetWindows(Outcome("", tab, h), tab, all,
                        [k \in 1..Len(all) |-> Scalar(what.v)])

-----------------------------------------------------------------------------
(* The state: the heap of column buffers, the tables alive (each with a    *)
(* record of how it was made), the outcome of the last operation, and the  *)
(* number of writes done.                                                  *)
(*                                                                         *)
(* The tables form a chain: tabs[1] is constructed, tabs[k + 1] is read    *)
(* from tabs[k] by a slice, a mask, a fancy index or a list of names.      *)

Entry(tab, kind, ind) == [tab |-> tab, via |-> [kind |-> kind, ind |-> ind]]

Result(op, t, err, out, arg, pre) ==
    [op |-> op, t |-> t, err |-> err, out |-> out, arg |-> arg, pre |-> pre]

Init ==
    /\ heap = <<>>
    /\ tabs = <<>>
    /\ res = Result("init", 0, "", <<>>, <<>>, <<>>)
    /\ writes = 0

\* the tables alive, and the newest of them
Tables == 1..Len(tabs)
Newest == Len(tabs)

\* the names a construction supplies, in the order it handles them
Supplied(columns1, columns2, columns3) ==
    (IF columns1.kind = "dict"
     THEN [k \in 1..Len(columns1.items) |-> columns1.items[k].name]
     ELSE IF columns1.kind = "seq"
     THEN [k \in 1..(1 + Len(columns2)) |-> FieldName(k - 1)]
     ELSE <<>>)
    \o [k \in 1..Len(columns3) |-> columns3[k].name]

\* Table(length, columns1, *columns2, **columns3)
Construct(length, columns1, columns2, columns3) ==
    LET o == TableInit(heap, length, columns1, columns2, columns3)
    IN  /\ tabs = <<>>
        /\ res' = Result("construct", 0, o.err, <<>>,
                         [length |-> length,
                          names |-> Supplied(columns1, columns2, columns3)], <<>>)
        /\ IF o.err = ""
           THEN heap' = o.heap /\ tabs' = <<Entry(o.tab, "base", <<>>)>>
           ELSE UNCHANGED <<heap, tabs>>
        /\ UNCHANGED writes

\* table[name]
GetItemName(t, n) ==
    LET r == GetColumn(heap, tabs[t].tab, n)
    IN  /\ res' = Result("column", t, r.err, r.out, n, <<>>)
        /\ UNCHANGED <<heap, tabs, writes>>

\* table[i]
GetItemRow(t, i) ==
    LET r == GetRow(heap, tabs[t].tab, i)
    IN  /\ res' = Result("row", t, r.err, r.out, i, <<>>)
        /\ UNCHANGED <<heap, tabs, writes>>

\* a read of the newest table that makes a table, which joins the chain
Derive(op, o, arg, ind) ==
    /\ res' = Result(op, Newest, o.err, <<>>, arg, <<>>)
    /\ IF o.err = ""
       THEN heap' = o.heap /\ tabs' = Append(tabs, Entry(o.tab, op, ind))
       ELSE UNCHANGED <<heap, tabs>>
    /\ UNCHANGED writes

\* table[a:b:c]
GetItemSlice(sl) ==
    LET tab == tabs[Newest].tab
    IN  Derive("slice", GetSlice(heap, tab, sl), <<>>, SliceIndices(sl, tab.length))

\* table[mask], table[fancy index]
GetItemIndex(where) ==
    Derive("index", GetIndex(heap, tabs[Newest].tab, where), where, <<>>)

\* table[[name, ...]]
GetItemNames(where) ==
    Derive("project", GetColumns(heap, tabs[Newest].tab, where), where, <<>>)

\* a write: the table t may gain a column, buffers may change
Write(op, t, o, arg) ==
    /\ writes' = writes + 1
    /\ res' = Result(op, t, o.err, <<>>, arg, [heap |-> heap, tabs |-> tabs])
    /\ heap' = o.heap
    /\ tabs' = [tabs EXCEPT ![t].tab = o.tab]

\* table[name] = what
SetItemName(t, n, what) ==
    /\ HasName(tabs[t].tab, n) \/ what.kind # "scalar"
    /\ Write("setcolumn", t, SetColumn(heap, tabs[t].tab, n, what),
             [name |-> n, what |-> what])

\* table[i] = what, table[mask] = what, table[fancy index] = what
SetItemIndex(t, where, what) ==
    Write("setindex", t,
          SetIndexed(Outcome("", tabs[t].tab, heap), tabs[t].tab,
                     Names(tabs[t].tab), where, what),
          [where |-> where, what |-> what])

\* table[[name, ...]] = what
SetItemNames(t, where, what) ==
    Write("setcolumns", t, SetColumns(heap, tabs[t].tab, where, what),
          [where |-> where, what |-> what])

-----------------------------------------------------------------------------
(* The inputs of the operations. *)

\* the sequence base, base+1, ... of n elements
Ramp(base, n) == [k \in 1..n |-> base + k - 1]

\* column names used as keys
KeyNames == {"x", "y", "f0"}

\* a column of n elements x and one of m elements y, as a dict
TwoColumns(n, m) ==
    Dict(<<[name |-> "x", what |-> Raw(Ramp(0, n))],
           [name |-> "y", what |-> Raw(Ramp(10, m))]>>)

\* the arguments of a construction, <<columns1, columns2, columns3>>: the
\* first column has MaxLen elements, the others m elements
Keyword(n, m) == <<[name |-> n, what |-> Raw(Ramp(20, m))]>>
ConstructArgs(m) ==
    { <<TwoColumns(MaxLen, m), <<>>, <<>>>>,
      <<TwoColumns(MaxLen, m), <<>>, Keyword("x", m)>>,
      <<TwoColumns(MaxLen, m), <<Raw(Ramp(10, m))>>, <<>>>>,
      <<Unnamed(Raw(Ramp(0, MaxLen))), <<>>, <<>>>>,
      <<Unnamed(Raw(Ramp(0, MaxLen))), <<Raw(Ramp(10, m))>>, <<>>>>,
      <<Unnamed(Raw(Ramp(0, MaxLen))), <<>>, Keyword("f0", m)>>,
      <<Unnamed(Raw(Ramp(0, MaxLen))), <<Raw(Ramp(10, m))>>, Keyword("x", m)>>,
      <<Neither, <<>>, <<>>>> }

\* slices of a table of the given length: each of start and stop is None, an
\* index from either end, or one beyond either end; the step is None or small
SliceBounds(length) ==
    { None, Some(-(length + 1)), Some(-1) } \cup { Some(n) : n \in 0..(length + 1) }
SliceSteps == { None } \cup { Some(n) : n \in {-2, -1, 2} }
Slices(length) ==
    { <<a, b, c>> : a \in SliceBounds(length), b \in SliceBounds(length),
                    c \in SliceSteps }

\* masks of MaxLen - 1 or MaxLen entries, fancy indexes of one or two entries
Masks == [1..(MaxLen - 1) -> BOOLEAN] \cup [1..MaxLen -> BOOLEAN]
Fancies == UNION { [1..n -> {-1, 0, MaxLen - 1}] : n \in 1..2 }
Indexes == { Mask(b) : b \in Masks } \cup { Fancy(f) : f \in Fancies }

\* integer row indexes
Rows == 0..MaxLen

\* lists of column names
NameLists == { <<>>, <<"y">>, <<"y", "x">>, <<"x", "z">>, <<"x", "y">> }

\* right-hand sides of a write to one column
Whats == { Scalar(7), Raw(Ramp(30, MaxLen - 1)), Raw(Ramp(30, MaxLen)) }
\* right-hand sides of a write to several columns
ManyWhats == { One(7), Each(<<Scalar(8)>>), Each(<<Scalar(8), Scalar(9)>>),
               Each(<<Raw(Ramp(30, MaxLen)), Raw(Ramp(40, MaxLen))>>) }

-----------------------------------------------------------------------------
(* The specifications. *)

\* every operation, on a table and on one table read from it
Next ==
    \/ \E length \in {-1, MaxLen}, m \in {MaxLen - 1, MaxLen} :
        \E c \in ConstructArgs(m) : Construct(length, c[1], c[2], c[3])
    \/ \E t \in Tables, n \in KeyNames : GetItemName(t, n)
    \/ \E t \in Tables, i \in Rows : GetItemRow(t, i)
    \/ /\ Len(tabs) = 1
       /\ \E sl \in Slices(tabs[Newest].tab.length) : GetItemSlice(sl)
    \/ /\ Len(tabs) = 1
       /\ \E where \in Indexes : GetItemIndex(where)
    \/ /\ Len(tabs) = 1
       /\ \E where \in NameLists : GetItemNames(where)
    \/ /\ writes < MaxWrites
       /\ \E t \in Tables, n \in {"x", "z"}, what \in Whats : SetItemName(t, n, what)
    \/ /\ writes < MaxWrites
       /\ \E t \in Tables, where \in { Row(0), Mask([k \in 1..MaxLen |-> k # 2]) },
             what \in Whats :
            SetItemIndex(t, where, what)
    \/ /\ writes < MaxWrites
       /\ \E t \in Tables, where \in { <<"x", "y">>, <<"x", "z">> },
             what \in ManyWhats :
            SetItemNames(t, where, what)

Spec == Init /\ [][Next]_vars

\* slices in a row: a table of MaxLen rows (and no columns, which the window
\* arithmetic does not read) is sliced, the result is sliced, and so on; the
\* slices of the first table include every shorter table at the identity
\* window
SliceNext ==
    \/ Construct(MaxLen, Dict(<<>>), <<>>, <<>>)
    \/ /\ Len(tabs) \in 1..MaxSlices
       /\ \E sl \in Slices(tabs[Newest].tab.length) : GetItemSlice(sl)

SliceSpec == Init /\ [][SliceNext]_vars

\* writes to a table and to a slice of it, before and after the slice is
\* taken
ColumnNext ==
    \/ \E length \in {-1, MaxLen}, m \in {MaxLen - 1, MaxLen} :
        \E c \in ConstructArgs(m) : Construct(length, c[1], c[2], c[3])
    \/ /\ Len(tabs) = 1
       /\ \E sl \in Slices(tabs[Newest].tab.length) : GetItemSlice(sl)
    \/ /\ writes < MaxWrites
       /\ \E t \in Tables, n \in {"x", "y", "z"}, what \in Whats :
            SetItemName(t, n, what)
    \/ /\ writes < MaxWrites
       /\ \E t \in Tables, where \in { Row(0), Mask([k \in 1..MaxLen |-> k # 2]) } :
            SetItemIndex(t, where, Scalar(7))
    \/ /\ writes < MaxWrites
       /\ \E t \in Tables, where \in { <<"x", "y">>, <<"x", "z">> },
             what \in ManyWhats :
            SetItemNames(t, where, what)

ColumnSpec == Init /\ [][ColumnNext]_vars

-----------------------------------------------------------------------------
(* The properties. *)

\* the absolute position of row k (counted from 0) of a table's window
RowPosition(tab, k) == tab.start + tab.step * k

\* C1: reading a table by an integer row index i, 0 <= i < length, returns
\* for every column, in the order of the columns, the element at the absolute
\* position start + step*i (whenever that position exists in every column)
RowReadAtWindow ==
    (/\ res.op = "row"
     /\ 0 <= res.arg /\ res.arg < tabs[res.t].tab.length
     /\ \A k \in 1..Len(tabs[res.t].tab.content) :
            LET x == heap[tabs[res.t].tab.content[k].buf]
            IN  /\ CheckLength(tabs[res.t].tab, x)
                /\ 0 <= RowPosition(tabs[res.t].tab, res.arg)
                /\ RowPosition(tabs[res.t].tab, res.arg) < Len(x))
    => /\ res.err = ""
       /\ Len(res.out) = Len(tabs[res.t].tab.content)
       /\ \A k \in 1..Len(res.out) :
            res.out[k] = heap[tabs[res.t].tab.content[k].buf]
                             [RowPosition(tabs[res.t].tab, res.arg) + 1]

\* C2: a read by column name that raises no error returns exactly length
\* elements, the k-th being the column's element at start + step*k
ColumnReadIsWindow ==
    (res.op = "column" /\ res.err = "")
    => LET tab == tabs[res.t].tab
           x == heap[Column(tab, res.arg)]
       IN  /\ Len(res.out) = tab.length
           /\ \A k \in 1..Len(res.out) :
                /\ 0 <= RowPosition(tab, k - 1)
                /\ RowPosition(tab, k - 1) < Len(x)
                /\ res.out[k] = x[RowPosition(tab, k - 1) + 1]

\* C3: a read by a mask or a fancy index (one that fits the parent's length)
\* returns a table with the identity window, whose length is the number of
\* rows selected and whose columns hold the selected elements of the parent's
\* windowed columns
IndexReadSelectsRows ==
    (res.op = "index" /\ res.err = ""
        /\ PickOk(tabs[res.t].tab.length, res.arg))
    => LET p == tabs[res.t].tab
           q == tabs[Newest].tab
           sel == Pick(p.length, res.arg)
       IN  /\ q.start = 0 /\ q.step = 1 /\ q.length = Len(sel)
           /\ Names(q) = Names(p)
           /\ \A c \in 1..Len(p.content) :
                LET x == heap[p.content[c].buf]
                    y == heap[q.content[c].buf]
                IN  /\ Len(y) = Len(sel)
                    /\ \A k \in 1..Len(sel) :
                        /\ 0 <= RowPosition(p, sel[k] - 1)
                        /\ RowPosition(p, sel[k] - 1) < Len(x)
                        /\ y[k] = x[RowPosition(p, sel[k] - 1) + 1]

\* C4: every table alive has step # 0, start >= 0 and length >= 0
WindowInvariant ==
    \A t \in Tables :
        tabs[t].tab.step # 0 /\ tabs[t].tab.start >= 0 /\ tabs[t].tab.length >= 0

\* ceil(n / d) for n >= 0, d > 0
Ceil(n, d) == (n + d - 1) \div d

\* the slice ind is normalized against a table of the given length
Normalized(ind, length) ==
    LET lower == IF ind[3] < 0 THEN -1 ELSE 0
        upper == IF ind[3] < 0 THEN length - 1 ELSE length
    IN  /\ ind[3] # 0
        /\ lower <= ind[1] /\ ind[1] <= upper
        /\ lower <= ind[2] /\ ind[2] <= upper

\* two slices in a row: the table k, its parent and its grandparent
TwoSlices(k) ==
    k >= 3 /\ tabs[k].via.kind = "slice" /\ tabs[k - 1].via.kind = "slice"

\* C5: the window of T[a:b:c][d:e:f] is the window composed in one step from
\* T's window: start + step*(a' + c'*d'), step*c'*f' and ceil(|d' - e'| / |f'|),
\* where (a', b', c') is normalized against T's length and (d', e', f')
\* against the length of T[a:b:c]
SliceComposition ==
    \A k \in Tables :
        TwoSlices(k)
        => LET T == tabs[k - 2].tab
               s1 == tabs[k - 1].via.ind
               s2 == tabs[k].via.ind
           IN  /\ Normalized(s1, T.length)
               /\ Normalized(s2, tabs[k - 1].tab.length)
               /\ tabs[k].tab.start = T.start + T.step * (s1[1] + s1[3] * s2[1])
               /\ tabs[k].tab.step = T.step * s1[3] * s2[3]
               /\ tabs[k].tab.length = Ceil(Abs(s2[1] - s2[2]), Abs(s2[3]))

\* C5 happens: T = t[1:] is reversed and every second row of the result is
\* taken, leaving rows
SliceCompositionCase ==
    /\ Len(tabs) = 4 /\ TwoSlices(4) /\ TwoSlices(3)
    /\ tabs[1].tab.length >= 3
    /\ tabs[2].tab.start = 1 /\ tabs[2].tab.length = tabs[1].tab.length - 1
    /\ tabs[3].via.ind[3] = -1 /\ tabs[3].tab.length = tabs[2].tab.length
    /\ tabs[4].via.ind[3] = 2 /\ tabs[4].via.ind[1] = 0
    /\ tabs[4].tab.start = tabs[3].tab.start /\ tabs[4].tab.length >= 1

\* the last operation was a write by column name of a name the table did not
\* have
AddedColumn ==
    res.op = "setcolumn" /\ ~HasName(res.pre.tabs[res.t].tab, res.arg.name)

\* C6: a write by column name with a name the table does not have succeeds
\* only at the identity window (start = 0, step = 1); on any other window it
\* fails with the view-mutation error and changes no table's columns and no
\* column data
AddColumnOnlyAtIdentity ==
    AddedColumn
    => LET tab == res.pre.tabs[res.t].tab
       IN  /\ res.err = "" => (tab.start = 0 /\ tab.step = 1)
           /\ (tab.start # 0 \/ tab.step # 1)
                => /\ res.err = "ViewMutationError"
                   /\ tabs = res.pre.tabs
                   /\ heap = res.pre.heap

\* C6 happens: a column is added through table[::2] of a table
AddColumnToViewCase ==
    /\ AddedColumn /\ res.t = 2
    /\ tabs[2].via.kind = "slice"
    /\ tabs[2].tab.start = 0 /\ tabs[2].tab.step = 2
    /\ res.err = "ViewMutationError"

\* C7: a write to several columns that fails leaves every column unchanged
FailedWriteChangesNothing ==
    (res.op = "setcolumns" /\ res.err # "") => heap = res.pre.heap

\* a name occurs twice in the sequence
Repeats(names) ==
    \E i \in 1..Len(names), j \in 1..Len(names) : i < j /\ names[i] = names[j]

\* C8: a construction (with an acceptable length) that supplies a column
\* name twice fails with the duplicate-field error and makes no table
DuplicateNameRefused ==
    (res.op = "construct" /\ res.arg.length >= 0 /\ Repeats(res.arg.names))
    => (res.err = "DuplicateField" /\ tabs = <<>>)

\* C9: a successful write by existing column name through a slice of a table
\* assigns exactly the positions start + step*k, 0 <= k < length, of the
\* shared column; every other element of every column stays as it was
ViewWriteHitsWindow ==
    (/\ res.op = "setcolumn" /\ res.err = ""
     /\ tabs[res.t].via.kind = "slice"
     /\ HasName(res.pre.tabs[res.t].tab, res.arg.name))
    => LET tab == tabs[res.t].tab
           b == Column(tab, res.arg.name)
           old == res.pre.heap
           d == res.arg.what.data
           given(k) == res.arg.what.kind = "scalar" \/ Len(d) = 1 \/ k + 1 <= Len(d)
           value(k) == IF res.arg.what.kind = "scalar" THEN res.arg.what.v
                       ELSE IF Len(d) = 1 THEN d[1] ELSE d[k + 1]
       IN  /\ Len(heap) = Len(old)
           /\ \A k \in 0..(tab.length - 1) :
                /\ 0 <= RowPosition(tab, k) /\ RowPosition(tab, k) < Len(heap[b])
                /\ given(k)
                /\ heap[b][RowPosition(tab, k) + 1] = value(k)
           /\ \A c \in 1..Len(heap) :
                /\ Len(heap[c]) = Len(old[c])
                /\ \A i \in 1..Len(heap[c]) :
                     (c # b \/ ~\E k \in 0..(tab.length - 1) :
                                    RowPosition(tab, k) = i - 1)
                     => heap[c][i] = old[c][i]

\* C10: the length of table[s] is the number of indices the slice selects,
\* len(range(start, stop, step)) for s normalized against the table's length
SliceLengthIsRangeLength ==
    \A k \in Tables :
        tabs[k].via.kind = "slice"
        => tabs[k].tab.length
             = RangeLen(tabs[k].via.ind[1], tabs[k].via.ind[2], tabs[k].via.ind[3])

=============================================================================
